---- MODULE Spec2Model ----
(***************************************************************************)
(* Library book scraper (scraper.py): a pull-based pipeline                *)
(*   fetch_books (page walker, a generator)                                *)
(*     -> map(extract_book_details) (field extractor)                      *)
(*     -> write_books_to_csv (streaming sink)                              *)
(* driven by main, which owns the browsing session.                        *)
(*                                                                         *)
(* The web site and the file system are the environment: what a page       *)
(* holds, what its next control looks like, whether a click or a wait      *)
(* succeeds and whether the destination can be written are chosen with \E  *)
(* at the moment the program observes them.                                *)
(***************************************************************************)
EXTENDS Integers, Sequences, FiniteSets

VARIABLES
    pc,        \* position of main / write_books_to_csv (the single thread)
    wpc,       \* position of the fetch_books generator
    driver,    \* "none" | "open" | "quit": the browsing session
    quits,     \* number of driver.quit() calls
    page,      \* number of the page the browser displays
    site,      \* the pages observed so far: their listings (DOM order) and next control
    held,      \* fetch_books: the list returned by find_elements that yield from iterates
    idx,       \* fetch_books: position of yield from in held
    cur,       \* the element handed to the consumer, <<page, index>>
    yielded,   \* every element yielded so far, in order
    clicks,    \* pages whose next control was clicked
    waits,     \* the bounded waits performed: kind, page, outcome
    rec,       \* the record map() handed to the sink and not yet written
    pulled,    \* number of records the sink pulled from its input
    count,     \* write_books_to_csv: count
    file,      \* the destination: the lines it holds
    fileOpen,  \* whether the destination is open
    csv_file,  \* the lines written to the file object since it was opened
    echoed,    \* number of records printed by the sink
    reported,  \* the count main printed, or -1
    prior,     \* what the destination held before the run
    exc,       \* the exception in flight, or "none"
    origin     \* where it was raised, and what was raised there

vars == <<pc, wpc, driver, quits, page, site, held, idx, cur, yielded, clicks,
          waits, rec, pulled, count, file, fileOpen, csv_file, echoed, reported,
          prior, exc, origin>>

(***************************************************************************)
(* Bounds of the model.                                                    *)
(***************************************************************************)
MaxPages == 2
MaxPerPage == 2
MaxTextLen == 5

(***************************************************************************)
(* Strings are sequences of characters, so that splitting is computed.     *)
(***************************************************************************)
Chars == {"a", ":", " "}

SeqsUpTo(S, n) == UNION {[1..k -> S] : k \in 0..n}

\* WebElement.text is the rendered text, without leading or trailing blanks.
Texts == {t \in SeqsUpTo(Chars, MaxTextLen) :
            t = <<>> \/ (t[1] # " " /\ t[Len(t)] # " ")}

\* split_delimiter=": " (extract_text's default)
split_delimiter == <<":", " ">>

\* Values of a record: a str or a bool.
Str(s) == [str |-> s]
Bool(b) == [bool |-> b]

\* Where an exception was raised, and which.
NoFailure == [who |-> "none", exc |-> "none"]
RaisedBy(who, e) == [who |-> who, exc |-> e]

Ok(v) == [exc |-> "none", val |-> v]
Raise(e) == [exc |-> e, val |-> Str(<<>>)]

(***************************************************************************)
(* main: the selectors dict (insertion order) and the fieldnames list.     *)
(***************************************************************************)
selectors == <<
    <<"title", "h4.text-primary">>,
    <<"district", "i.fas.fa-map-marker">>,
    <<"author", "i.fa.fa-user">>,
    <<"copy_id", "i.fa.fa-clone">>,
    <<"publication_year", "i.fa.fa-calendar">>,
    <<"publisher", "i.fas.fa-money-bill-alt">>,
    <<"call_number", "i.fa.fa-list-ol">>,
    <<"edition", "i.fas.fa-clock">>,
    <<"new_release", "span.badge.badge-secondary.text-white">> >>

fieldnames == <<"title", "district", "author", "copy_id", "publication_year",
                "publisher", "call_number", "edition", "new_release">>

SelectorStrings == {selectors[i][2] : i \in 1..Len(selectors)}

\* selectors[key]
SelectorOf(sels, key) ==
    sels[CHOOSE i \in 1..Len(sels) : sels[i][1] = key][2]

(***************************************************************************)
(* A listing element of the DOM: the selectors that match a sub-element of *)
(* it, the text its sub-elements and their containers render, and whether  *)
(* the reference to it is stale (every use of a stale reference raises).   *)
(***************************************************************************)
Elements == [matches : SUBSET SelectorStrings, text : Texts, stale : BOOLEAN]

\* element.find_element(By.CSS_SELECTOR, selector): the exception it raises
find_element(element, selector) ==
    IF element.stale THEN "StaleElementReferenceException"
    ELSE IF selector \in element.matches THEN "none"
    ELSE "NoSuchElementException"

\* element.find_elements(By.CSS_SELECTOR, selector): the number of matches
find_elements(element, selector) ==
    IF element.stale THEN Raise("StaleElementReferenceException")
    ELSE Ok(IF selector \in element.matches THEN 1 ELSE 0)

\* Index of the first occurrence of delim in text, or 0.
FirstIndex(text, delim) ==
    LET hits == {i \in 1..(Len(text) - Len(delim) + 1) :
                    SubSeq(text, i, i + Len(delim) - 1) = delim}
    IN IF hits = {} THEN 0 ELSE CHOOSE i \in hits : \A j \in hits : i <= j

\* Mutant: text.rsplit(delimiter, 1)[-1], the part after the last occurrence.
split_last_rightmost(text, delim) ==
    LET hits == {i \in 1..(Len(text) - Len(delim) + 1) :
                    SubSeq(text, i, i + Len(delim) - 1) = delim}
    IN IF hits = {} THEN text
       ELSE LET i == CHOOSE h \in hits : \A j \in hits : j <= h
            IN SubSeq(text, i + Len(delim), Len(text))

\* text.split(delimiter, 1)[-1]
split_last(text, delim) ==
    LET i == FirstIndex(text, delim)
    IN IF i = 0 THEN text ELSE SubSeq(text, i + Len(delim), Len(text))

\* extract_text(element, selector, split_delimiter)
extract_text(element, selector, delim) ==
    LET e == find_element(element, selector)
    IN IF e = "none" THEN Ok(Str(split_last(element.text, delim)))
       ELSE IF e = "NoSuchElementException" THEN Ok(Str(<<>>))
       ELSE Raise(e)

\* book.find_element(By.CSS_SELECTOR, selector).text
title_text(book, selector) ==
    LET e == find_element(book, selector)
    IN IF e = "none" THEN Ok(Str(book.text)) ELSE Raise(e)

\* The value of one item of the dict comprehension of extract_book_details.
details_item(key, selector, book) ==
    IF key = "title" THEN title_text(book, selector)
    ELSE extract_text(book, selector, split_delimiter)

\* The dict comprehension from the i-th item of selectors on, the items
\* before it having given details: the first exception ends it.
RECURSIVE details_from(_, _, _, _)
details_from(sels, book, i, details) ==
    IF i > Len(sels) THEN Ok(details)
    ELSE IF sels[i][1] = "new_release" THEN details_from(sels, book, i + 1, details)
    ELSE LET r == details_item(sels[i][1], sels[i][2], book)
         IN IF r.exc # "none" THEN Raise(r.exc)
            ELSE details_from(sels, book, i + 1, Append(details, <<sels[i][1], r.val>>))

\* Mutant: the key is set only when a badge is found.
set_new_release_if_badge(sels, book, details) ==
    LET r == find_elements(book, SelectorOf(sels, "new_release"))
    IN IF r.exc # "none" THEN Raise(r.exc)
       ELSE IF r.val > 0 THEN Ok(Append(details, <<"new_release", Bool(TRUE)>>))
       ELSE Ok(details)

\* details["new_release"] = bool(book.find_elements(...))
set_new_release(sels, book, details) ==
    LET r == find_elements(book, SelectorOf(sels, "new_release"))
    IN IF r.exc # "none" THEN Raise(r.exc)
       ELSE Ok(Append(details, <<"new_release", Bool(r.val > 0)>>))

\* Mutant: any failure while reading the element gives a record of defaults.
extract_book_details_lenient(sels, book) ==
    LET d == details_from(sels, book, 1, <<>>)
    IN IF d.exc # "none"
       THEN Ok(<<<<"new_release", Bool(FALSE)>>>>)
       ELSE set_new_release(sels, book, d.val)

\* extract_book_details(selectors, book): the record, as its items in order
extract_book_details(sels, book) ==
    LET d == details_from(sels, book, 1, <<>>)
    IN IF d.exc # "none" THEN d ELSE set_new_release(sels, book, d.val)

Keys(record) == [i \in 1..Len(record) |-> record[i][1]]

HasKey(record, key) == \E i \in 1..Len(record) : record[i][1] = key

Get(record, key) == record[CHOOSE i \in 1..Len(record) : record[i][1] = key][2]

(***************************************************************************)
(* csv.DictWriter                                                          *)
(***************************************************************************)
\* str(value), as csv writes a cell
CellOf(v) ==
    IF "bool" \in DOMAIN v
    THEN (IF v.bool THEN <<"T", "r", "u", "e">> ELSE <<"F", "a", "l", "s", "e">>)
    ELSE v.str

\* writer.writeheader()
HeaderLine(names) == [kind |-> "header", cells |-> names]

\* writer.writerow(book): ValueError on a key that is no field name, the
\* restval "" for a field name that is no key
RowLine(names, record) ==
    IF \E i \in 1..Len(record) : \A j \in 1..Len(names) : names[j] # record[i][1]
    THEN Raise("ValueError")
    ELSE Ok([kind |-> "row",
             cells |-> [j \in 1..Len(names) |->
                          IF HasKey(record, names[j])
                          THEN CellOf(Get(record, names[j])) ELSE <<>>]])

OldLine == [kind |-> "old", cells |-> <<>>]

\* open(filename, mode='w'): the content an opened destination starts with
OpenTruncating(content) == <<>>

\* A line of which the destination holds the first bytes only.
CutLine(line) == [kind |-> "cut", cells |-> line.cells]

\* How much of the lines written a content holds: two per whole line, one
\* for a cut line at its end.
Progress(content) ==
    IF content # <<>> /\ content[Len(content)].kind = "cut"
    THEN 2 * Len(content) - 1 ELSE 2 * Len(content)

\* The first bytes of the lines written, up to progress p.
Prefix(lines, p) ==
    IF p % 2 = 0 THEN SubSeq(lines, 1, p \div 2)
    ELSE Append(SubSeq(lines, 1, p \div 2), CutLine(lines[(p \div 2) + 1]))

\* What the destination may hold once more of the buffer went to it: the
\* bytes are written in order, so it is a prefix of the lines written and
\* holds no less than before.
Flushed(content, lines) == {Prefix(lines, p) : p \in Progress(content)..(2 * Len(lines))}

\* Mutant: the counter is bumped twice per row.
CountAfterRow_Double(c) == c + 2

\* Mutant: the counter is not bumped.
CountAfterRow_Stuck(c) == c

\* count += 1
CountAfterRow(c) == c + 1

(***************************************************************************)
(* The catalog as the environment serves it.                               *)
(***************************************************************************)
\* The listing elements a page of the pipeline may hold: a full entry with
\* the new-release badge, an entry with nothing but its title, an entry
\* without a title, and an entry whose node the site replaces after listing.
FullBook == [matches |-> SelectorStrings, text |-> <<"a", ":", " ", "a">>, stale |-> FALSE]
BareBook == [matches |-> {"h4.text-primary"}, text |-> <<"a">>, stale |-> FALSE]
UntitledBook == [matches |-> SelectorStrings \ {"h4.text-primary"},
                 text |-> <<"a", ":", " ", "a">>, stale |-> FALSE]
DetachedBook == [matches |-> SelectorStrings, text |-> <<"a">>, stale |-> TRUE]

BookKinds == {FullBook, BareBook, UntitledBook, DetachedBook}

\* What driver.find_elements(".card.listing-preview") can find on a page.
PageDoms == SeqsUpTo(BookKinds, MaxPerPage)

\* The next control '//a[normalize-space()="»"]' of a page.
NextControls ==
    {[present |-> FALSE, enabled |-> FALSE, displayed |-> FALSE]}
    \cup [present : {TRUE}, enabled : BOOLEAN, displayed : BOOLEAN]

\* A page as observed: its listings, and its next control once fetch_books
\* has looked for it.
PageSeen(dom) == [listings |-> dom, checked |-> FALSE,
                  next |-> [present |-> FALSE, enabled |-> FALSE, displayed |-> FALSE]]

\* The element a handle <<p, i>> refers to; a handle of a page the browser
\* has left is stale.
ElementAt(s, pg, h) ==
    LET e == s[h[1]].listings[h[2]]
    IN [e EXCEPT !.stale = e.stale \/ h[1] # pg]

\* Mutant: the listings come back in reverse DOM order.
ListingHandles_Reversed(p, dom) == [i \in 1..Len(dom) |-> <<p, Len(dom) + 1 - i>>]

\* driver.find_elements(...) on page p: one handle per listing, in DOM order
ListingHandles(p, dom) == [i \in 1..Len(dom) |-> <<p, i>>]

\* Mutant: the wait for listings sits inside the try statement.
WalkerCatches_Everywhere(place, e) ==
    e \in {"NoSuchElementException", "ElementClickInterceptedException",
           "TimeoutException"}

\* Mutant: the except clause does not name TimeoutException.
WalkerCatches_NoTimeout(place, e) ==
    /\ place = "next"
    /\ e \in {"NoSuchElementException", "ElementClickInterceptedException"}

\* The except clause of fetch_books: whether an exception raised at `place`
\* ("listings": lines 104-106, outside the try; "next": lines 109-113) is
\* caught and ends the pagination.
WalkerCatches(place, e) ==
    /\ place = "next"
    /\ e \in {"NoSuchElementException", "ElementClickInterceptedException",
              "TimeoutException"}

(***************************************************************************)
(* Initial state: before main runs. The destination may hold an old export.*)
(***************************************************************************)
Init ==
    /\ pc = "setup"
    /\ wpc = "AWAITING_LISTINGS"
    /\ driver = "none"
    /\ quits = 0
    /\ page = 1
    /\ site = <<>>
    /\ held = <<>>
    /\ idx = 1
    /\ cur = <<0, 0>>
    /\ yielded = <<>>
    /\ clicks = <<>>
    /\ waits = <<>>
    /\ rec = <<>>
    /\ pulled = 0
    /\ count = 0
    /\ file \in {<<>>, <<OldLine, OldLine>>}
    /\ prior = file
    /\ fileOpen = FALSE
    /\ csv_file = <<>>
    /\ echoed = 0
    /\ reported = -1
    /\ exc = "none"
    /\ origin = NoFailure

(***************************************************************************)
(* main                                                                    *)
(***************************************************************************)
\* driver = setup_driver()
main_setup_driver ==
    /\ pc = "setup"
    /\ driver' = "open"
    /\ pc' = "navigate"
    /\ UNCHANGED <<prior, wpc, quits, page, site, held, idx, cur, yielded, clicks, waits,
                   rec, pulled, count, file, fileOpen, csv_file, echoed, reported, exc, origin>>

\* driver.get(url), before the try statement: a failure leaves main at once.
\* On success main builds the generator and the map (nothing runs yet) and
\* calls write_books_to_csv.
main_navigate ==
    /\ pc = "navigate"
    /\ \E ok \in BOOLEAN :
        IF ok
        THEN /\ pc' = "open"
             /\ UNCHANGED <<exc, origin>>
        ELSE /\ pc' = "raised"
             /\ exc' = "WebDriverException"
             /\ origin' = RaisedBy("navigate", exc')
    /\ UNCHANGED <<prior, wpc, driver, quits, page, site, held, idx, cur, yielded, clicks,
                   waits, rec, pulled, count, file, fileOpen, csv_file, echoed, reported>>

\* print(f"Total books scraped: {count}")
main_report ==
    /\ pc = "report"
    /\ reported' = count
    /\ pc' = "finally"
    /\ UNCHANGED <<prior, wpc, driver, quits, page, site, held, idx, cur, yielded, clicks,
                   waits, rec, pulled, count, file, fileOpen, csv_file, echoed, exc, origin>>

\* Mutant: driver.quit() follows the try statement instead of sitting in its
\* finally clause, so it runs on normal completion only.
main_finally_quit_after_try ==
    /\ pc = "finally"
    /\ IF exc = "none"
       THEN /\ driver' = "quit"
            /\ quits' = quits + 1
       ELSE UNCHANGED <<driver, quits>>
    /\ pc' = IF exc = "none" THEN "done" ELSE "raised"
    /\ UNCHANGED <<prior, wpc, page, site, held, idx, cur, yielded, clicks, waits, rec,
                   pulled, count, file, fileOpen, csv_file, echoed, reported, exc, origin>>

\* finally: driver.quit(); then the exception in flight, if any, goes on
main_finally ==
    /\ pc = "finally"
    /\ driver' = "quit"
    /\ quits' = quits + 1
    /\ pc' = IF exc = "none" THEN "done" ELSE "raised"
    /\ UNCHANGED <<prior, wpc, page, site, held, idx, cur, yielded, clicks, waits, rec,
                   pulled, count, file, fileOpen, csv_file, echoed, reported, exc, origin>>

\* map(extract_details, book_elements): the element just yielded becomes a
\* record for the sink, or extract_book_details raises through the sink.
main_map_extract ==
    /\ pc = "extract"
    /\ LET r == extract_book_details(selectors, ElementAt(site, page, cur))
       IN IF r.exc = "none"
          THEN /\ rec' = r.val
               /\ pulled' = pulled + 1
               /\ pc' = "write"
               /\ UNCHANGED <<exc, origin>>
          ELSE /\ exc' = r.exc
               /\ origin' = RaisedBy("extractor", exc')
               /\ pc' = "close"
               /\ UNCHANGED <<rec, pulled>>
    /\ UNCHANGED <<prior, wpc, driver, quits, page, site, held, idx, cur, yielded, clicks,
                   waits, count, file, fileOpen, csv_file, echoed, reported>>

(***************************************************************************)
(* write_books_to_csv                                                      *)
(***************************************************************************)
\* count = 0; open(filename, 'w'); writer.writeheader(). The open truncates
\* the destination; the header line goes to the buffer of the file object
\* (it is far shorter than the buffer) and not yet to the destination.
write_books_to_csv_open ==
    /\ pc = "open"
    /\ count' = 0
    /\ \E ok \in BOOLEAN :
        IF ok
        THEN /\ file' = OpenTruncating(file)
             /\ csv_file' = <<HeaderLine(fieldnames)>>
             /\ fileOpen' = TRUE
             /\ pc' = "pull"
             /\ UNCHANGED <<exc, origin>>
        ELSE /\ exc' = "OSError"
             /\ origin' = RaisedBy("open", exc')
             /\ pc' = "finally"
             /\ UNCHANGED <<file, fileOpen, csv_file>>
    /\ UNCHANGED <<prior, wpc, driver, quits, page, site, held, idx, cur, yielded, clicks,
                   waits, rec, pulled, echoed, reported>>

\* print(book); writer.writerow(book); count += 1. writerow puts the row in
\* the buffer of the file object. When the buffer is full ("drain") part of
\* it goes to the destination, which then holds more of the lines written,
\* the last possibly cut; when the destination refuses the data ("fail")
\* writerow raises OSError, with whatever was taken left in the destination.
write_books_to_csv_row ==
    /\ pc = "write"
    /\ echoed' = echoed + 1
    /\ LET line == RowLine(fieldnames, rec)
       IN IF line.exc # "none"
          THEN /\ exc' = line.exc
               /\ origin' = RaisedBy("writerow", exc')
               /\ pc' = "close"
               /\ UNCHANGED <<file, csv_file, count, rec>>
          ELSE \E buffer \in {"kept", "drain", "fail"} :
                 /\ csv_file' = Append(csv_file, line.val)
                 /\ IF buffer = "kept" THEN file' = file
                    ELSE IF buffer = "drain"
                    THEN file' \in Flushed(file, csv_file') \ {file}
                    ELSE file' \in Flushed(file, csv_file') \ {csv_file'}
                 /\ IF buffer = "fail"
                    THEN /\ exc' = "OSError"
                         /\ origin' = RaisedBy("writerow", exc')
                         /\ pc' = "close"
                         /\ UNCHANGED <<count, rec>>
                    ELSE /\ count' = CountAfterRow(count)
                         /\ rec' = <<>>
                         /\ pc' = "pull"
                         /\ UNCHANGED <<exc, origin>>
    /\ UNCHANGED <<prior, wpc, driver, quits, page, site, held, idx, cur, yielded, clicks,
                   waits, pulled, fileOpen, reported>>

\* Leaving the with block, at the end of the loop or on an exception: the
\* file object is closed, and the close writes what the buffer still holds
\* to the destination. When the destination refuses it the close raises
\* OSError, in place of the exception the block was left with, if any. A
\* writerow that failed on the destination has lost the bytes it was
\* writing: the close then writes at most what the buffer had kept of the
\* lines before them. Without an exception the count is returned.
write_books_to_csv_exit ==
    /\ pc = "close"
    /\ fileOpen' = FALSE
    /\ \E ok \in BOOLEAN :
         IF ok
         THEN /\ IF origin = RaisedBy("writerow", "OSError")
                 THEN file' \in Flushed(file, csv_file) \ {csv_file}
                 ELSE file' = csv_file
              /\ pc' = IF exc = "none" THEN "report" ELSE "finally"
              /\ UNCHANGED <<exc, origin>>
         ELSE /\ file # csv_file
              /\ file' \in Flushed(file, csv_file) \ {csv_file}
              /\ exc' = "OSError"
              /\ origin' = RaisedBy("close", exc')
              /\ pc' = "finally"
    /\ UNCHANGED <<prior, wpc, driver, quits, page, site, held, idx, cur, yielded, clicks,
                   waits, rec, pulled, count, csv_file, echoed, reported>>

(***************************************************************************)
(* fetch_books: the generator runs only while the sink pulls (pc = "pull").*)
(***************************************************************************)
\* wait.until(presence_of_all_elements_located(...)), then a second query,
\* driver.find_elements(...), whose list is the one yielded from. Either no
\* listing ever appears and the wait times out, or the wait sees one and the
\* second query returns what the page holds by then: the result of the wait
\* is not used, and the second list may be empty.
fetch_books_await_listings ==
    /\ pc = "pull"
    /\ wpc = "AWAITING_LISTINGS"
    /\ \E appeared \in BOOLEAN, dom \in PageDoms :
        IF appeared
        THEN /\ site' = Append(site, PageSeen(dom))
             /\ waits' = Append(waits, [kind |-> "listings", page |-> page, outcome |-> "ok"])
             /\ held' = ListingHandles(page, dom)
             /\ idx' = 1
             /\ wpc' = "YIELDING"
             /\ UNCHANGED <<pc, exc, origin>>
        ELSE /\ dom = <<>>
             /\ site' = Append(site, PageSeen(dom))
             /\ waits' = Append(waits, [kind |-> "listings", page |-> page, outcome |-> "timeout"])
             /\ UNCHANGED <<held, idx>>
             /\ IF WalkerCatches("listings", "TimeoutException")
                THEN /\ wpc' = "TERMINATED"
                     /\ pc' = "close"
                     /\ UNCHANGED <<exc, origin>>
                ELSE /\ wpc' = "RAISED"
                     /\ exc' = "TimeoutException"
                     /\ origin' = RaisedBy("walker", exc')
                     /\ pc' = "close"
    /\ UNCHANGED <<prior, driver, quits, page, cur, yielded, clicks, rec, pulled, count,
                   file, fileOpen, csv_file, echoed, reported>>

\* Mutant: the list is bound to a name of the generator and outlives the
\* yield from.
fetch_books_yield_keeps_list ==
    /\ pc = "pull"
    /\ wpc = "YIELDING"
    /\ IF idx <= Len(held)
       THEN /\ cur' = held[idx]
            /\ yielded' = Append(yielded, held[idx])
            /\ idx' = idx + 1
            /\ pc' = "extract"
            /\ UNCHANGED <<wpc, held>>
       ELSE /\ wpc' = "CHECKING_NEXT"
            /\ UNCHANGED <<cur, yielded, idx, pc, held>>
    /\ UNCHANGED <<prior, driver, quits, page, site, clicks, waits, rec, pulled, count,
                   file, fileOpen, csv_file, echoed, reported, exc, origin>>

\* yield from <list>: hand the next element to the consumer, or leave the
\* exhausted list for the try statement.
fetch_books_yield ==
    /\ pc = "pull"
    /\ wpc = "YIELDING"
    /\ IF idx <= Len(held)
       THEN /\ cur' = held[idx]
            /\ yielded' = Append(yielded, held[idx])
            /\ idx' = idx + 1
            /\ pc' = "extract"
            /\ UNCHANGED <<wpc, held>>
       ELSE /\ wpc' = "CHECKING_NEXT"
            /\ held' = <<>>
            /\ UNCHANGED <<cur, yielded, idx, pc>>
    /\ UNCHANGED <<prior, driver, quits, page, site, clicks, waits, rec, pulled, count,
                   file, fileOpen, csv_file, echoed, reported, exc, origin>>

\* Mutant: the control is clicked without the is_enabled() and
\* is_displayed() test.
NextStep_ClickAnyway(ctl, intercepted) ==
    IF ~ctl.present THEN "NoSuchElementException"
    ELSE IF intercepted THEN "ElementClickInterceptedException"
    ELSE "clicked"

\* The exception, if any, of lines 109-112 on a next control: find_element,
\* the is_enabled() and is_displayed() test, click().
NextStep(ctl, intercepted) ==
    IF ~ctl.present THEN "NoSuchElementException"
    ELSE IF ~(ctl.enabled /\ ctl.displayed) THEN "break"
    ELSE IF intercepted THEN "ElementClickInterceptedException"
    ELSE "clicked"

\* Mutant: the else branch and the except clause do not break, so the loop
\* goes on with the page it is on.
fetch_books_check_next_no_break ==
    /\ pc = "pull"
    /\ wpc = "CHECKING_NEXT"
    /\ \E ctl \in NextControls, intercepted \in BOOLEAN :
        LET step == NextStep(ctl, intercepted)
        IN /\ site' = [site EXCEPT ![page].next = ctl, ![page].checked = TRUE]
           /\ IF step = "clicked"
              THEN /\ clicks' = Append(clicks, page)
                   /\ wpc' = "ADVANCING"
                   /\ UNCHANGED <<pc, exc, origin>>
              ELSE IF step = "break" \/ WalkerCatches("next", step)
              THEN /\ wpc' = "AWAITING_LISTINGS"
                   /\ UNCHANGED <<pc, clicks, exc, origin>>
              ELSE /\ wpc' = "RAISED"
                   /\ exc' = step
                   /\ origin' = RaisedBy("walker", exc')
                   /\ pc' = "close"
                   /\ UNCHANGED clicks
    /\ UNCHANGED <<prior, driver, quits, page, held, idx, cur, yielded, waits, rec, pulled,
                   count, file, fileOpen, csv_file, echoed, reported>>

\* try: find the next control; click it when enabled and displayed, else
\* break; a caught exception breaks too. Leaving the loop ends the generator.
fetch_books_check_next ==
    /\ pc = "pull"
    /\ wpc = "CHECKING_NEXT"
    /\ \E ctl \in NextControls, intercepted \in BOOLEAN :
        LET step == NextStep(ctl, intercepted)
        IN /\ site' = [site EXCEPT ![page].next = ctl, ![page].checked = TRUE]
           /\ IF step = "clicked"
              THEN /\ clicks' = Append(clicks, page)
                   /\ wpc' = "ADVANCING"
                   /\ UNCHANGED <<pc, exc, origin>>
              ELSE IF step = "break" \/ WalkerCatches("next", step)
              THEN /\ wpc' = "TERMINATED"
                   /\ pc' = "close"
                   /\ UNCHANGED <<clicks, exc, origin>>
              ELSE /\ wpc' = "RAISED"
                   /\ exc' = step
                   /\ origin' = RaisedBy("walker", exc')
                   /\ pc' = "close"
                   /\ UNCHANGED clicks
    /\ UNCHANGED <<prior, driver, quits, page, held, idx, cur, yielded, waits, rec, pulled,
                   count, file, fileOpen, csv_file, echoed, reported>>

\* Mutant: the list is found once, before the loop, so after the old page
\* went stale its elements are yielded again.
fetch_books_await_stale_old_list ==
    /\ pc = "pull"
    /\ wpc = "ADVANCING"
    /\ \E replaced \in BOOLEAN, dom \in PageDoms :
        IF replaced /\ page < MaxPages
        THEN /\ waits' = Append(waits, [kind |-> "stale", page |-> page, outcome |-> "ok"])
             /\ page' = page + 1
             /\ site' = Append(site, PageSeen(dom))
             /\ held' = ListingHandles(page, site[page].listings)
             /\ idx' = 1
             /\ wpc' = "YIELDING"
             /\ UNCHANGED <<pc, exc, origin>>
        ELSE /\ dom = <<>>
             /\ waits' = Append(waits, [kind |-> "stale", page |-> page, outcome |-> "timeout"])
             /\ wpc' = "TERMINATED"
             /\ pc' = "close"
             /\ UNCHANGED <<page, site, held, idx, exc, origin>>
    /\ UNCHANGED <<prior, driver, quits, cur, yielded, clicks, rec, pulled,
                   count, file, fileOpen, csv_file, echoed, reported>>

\* wait.until(EC.staleness_of(next_button)): the old page is replaced by the
\* next one, or the wait times out inside the try statement.
fetch_books_await_stale ==
    /\ pc = "pull"
    /\ wpc = "ADVANCING"
    /\ \E replaced \in BOOLEAN :
        IF replaced /\ page < MaxPages
        THEN /\ waits' = Append(waits, [kind |-> "stale", page |-> page, outcome |-> "ok"])
             /\ page' = page + 1
             /\ wpc' = "AWAITING_LISTINGS"
             /\ UNCHANGED <<pc, exc, origin>>
        ELSE /\ waits' = Append(waits, [kind |-> "stale", page |-> page, outcome |-> "timeout"])
             /\ UNCHANGED page
             /\ IF WalkerCatches("next", "TimeoutException")
                THEN /\ wpc' = "TERMINATED"
                     /\ pc' = "close"
                     /\ UNCHANGED <<exc, origin>>
                ELSE /\ wpc' = "RAISED"
                     /\ exc' = "TimeoutException"
                     /\ origin' = RaisedBy("walker", exc')
                     /\ pc' = "close"
    /\ UNCHANGED <<prior, driver, quits, site, held, idx, cur, yielded, clicks, rec, pulled,
                   count, file, fileOpen, csv_file, echoed, reported>>

(***************************************************************************)
(* The run of main.                                                        *)
(***************************************************************************)
Next ==
    \/ main_setup_driver
    \/ main_navigate
    \/ write_books_to_csv_open
    \/ fetch_books_await_listings
    \/ fetch_books_yield
    \/ fetch_books_check_next
    \/ fetch_books_await_stale
    \/ main_map_extract
    \/ write_books_to_csv_row
    \/ write_books_to_csv_exit
    \/ main_report
    \/ main_finally

Spec == Init /\ [][Next]_vars

(***************************************************************************)
(* extract_book_details on its own: the pipeline at the moment the first   *)
(* element of the first page has been yielded, for every element.          *)
(***************************************************************************)
InitExtract ==
    /\ pc = "extract"
    /\ wpc = "YIELDING"
    /\ driver = "open"
    /\ quits = 0
    /\ page = 1
    /\ \E e \in Elements : site = <<PageSeen(<<e>>)>>
    /\ held = <<<<1, 1>>>>
    /\ idx = 2
    /\ cur = <<1, 1>>
    /\ yielded = <<<<1, 1>>>>
    /\ clicks = <<>>
    /\ waits = <<[kind |-> "listings", page |-> 1, outcome |-> "ok"]>>
    /\ rec = <<>>
    /\ pulled = 0
    /\ count = 0
    /\ file = <<>>
    /\ csv_file = <<HeaderLine(fieldnames)>>
    /\ prior = <<>>
    /\ fileOpen = TRUE
    /\ echoed = 0
    /\ reported = -1
    /\ exc = "none"
    /\ origin = NoFailure

NextExtract == main_map_extract

SpecExtract == InitExtract /\ [][NextExtract]_vars

(***************************************************************************)
(* Properties.                                                             *)
(***************************************************************************)
\* The listings of the first n observed pages, page by page, each page in
\* DOM order.
RECURSIVE DomOrder(_, _)
DomOrder(s, n) ==
    IF n = 0 THEN <<>>
    ELSE DomOrder(s, n - 1) \o [i \in 1..Len(s[n].listings) |-> <<n, i>>]

\* The element a handle referred to while its page was displayed.
ElementOf(h) == ElementAt(site, h[1], h)

\* The row each kind of listing element gives, extracted and then written,
\* for the kinds extract_book_details accepts.
KindRows ==
    {<<k, RowLine(fieldnames, extract_book_details(selectors, k).val).val>> :
        k \in {b \in BookKinds : extract_book_details(selectors, b).exc = "none"}}

\* The row of the listing element a handle refers to.
RowOf(h) == LET k == ElementOf(h) IN (CHOOSE p \in KindRows : p[1] = k)[2]

\* The lines the sink has written to the file object once it has written the
\* rows of the first n elements yielded: the header, then those rows.
WrittenLines(n) == <<HeaderLine(fieldnames)>> \o [i \in 1..n |-> RowOf(yielded[i])]

\* Closing the file object failed: the OSError of the close is in flight.
CloseFailed == origin = RaisedBy("close", "OSError") /\ exc = "OSError"

Ready(ctl) == ctl.present /\ ctl.enabled /\ ctl.displayed

\* The open call of the sink went through.
Opened == pc \in {"pull", "extract", "write", "close", "report", "done"}
          \/ (pc \in {"finally", "raised"} /\ origin.who \notin {"navigate", "open"})

\* The value extract_book_details is to give for the i-th selector.
ExpectedValue(e, i) ==
    IF selectors[i][1] = "new_release" THEN Bool(selectors[i][2] \in e.matches)
    ELSE IF selectors[i][2] \notin e.matches THEN Str(<<>>)
    ELSE IF selectors[i][1] = "title" THEN Str(e.text)
    ELSE Str(split_last(e.text, split_delimiter))

\* C1 (as claimed): for a live listing element, whichever selectors match
\* nothing (the title's included), extract_book_details raises nothing and
\* returns a record with "" (False for new_release) for the fields without a
\* match and the extracted value for every other field.
C1_DefaultFillEveryField ==
    LET e == site[1].listings[1]
    IN (pc # "extract" /\ ~e.stale) =>
          /\ exc = "none"
          /\ \A i \in 1..Len(selectors) :
                /\ HasKey(rec, selectors[i][1])
                /\ Get(rec, selectors[i][1]) = ExpectedValue(e, i)

\* The session of C2 as fetch_books has seen it: every page showed its
\* listings and had its next control looked for; the control was present,
\* enabled and displayed on every page but the last, where it is absent. (A
\* page is followed by another only when the click went through and the old
\* page went stale.)
C2_Session ==
    /\ Len(site) >= 1
    /\ \A p \in 1..Len(site) :
          /\ site[p].checked
          /\ p < Len(site) => Ready(site[p].next)
          /\ p = Len(site) => ~site[p].next.present

\* C2: on a session of N pages whose next control is present, enabled and
\* displayed on pages 1..N-1 and absent on page N, fetch_books has yielded
\* exactly the listings of pages 1..N, in page order and DOM order, each
\* once, and has ended without raising.
C2_YieldsAllPagesInOrder ==
    C2_Session =>
        /\ wpc = "TERMINATED"
        /\ origin.who # "walker"
        /\ yielded = DomOrder(site, Len(site))

C2_Witness ==
    /\ C2_Session
    /\ Len(site) = 2
    /\ Len(site[1].listings) = 2
    /\ Len(yielded) >= 3

\* C3: in a run that completes normally the data rows of the destination,
\* the count returned and reported, and the elements yielded are equally
\* many, and the i-th row is the record of the i-th element yielded.
C3_OneRowPerElement ==
    (pc \in {"report", "finally", "done"} /\ exc = "none") =>
        /\ count = Len(yielded)
        /\ pulled = Len(yielded)
        /\ Len(file) = count + 1
        /\ \A i \in 1..Len(yielded) : file[i + 1] = RowOf(yielded[i])
        /\ pc # "report" => reported = count

C3_Witness ==
    /\ pc = "done"
    /\ reported >= 3
    /\ Len(site) = 2

ListingsTimeout(w) == w.kind = "listings" /\ w.outcome = "timeout"
StaleTimeout(w) == w.kind = "stale" /\ w.outcome = "timeout"

\* C4: when the wait for listings times out on a page (the first or a later
\* one), fetch_books has raised TimeoutException to its consumer, no element
\* of that page has been yielded, and the run is on its way to failure: no
\* count is reported. The failure main ends with is that TimeoutException,
\* or the OSError of a close that failed while it was in flight.
C4_ListingsTimeoutIsFatal ==
    \A i \in DOMAIN waits :
        ListingsTimeout(waits[i]) =>
            /\ wpc = "RAISED"
            /\ \/ exc = "TimeoutException" /\ origin = RaisedBy("walker", "TimeoutException")
               \/ CloseFailed /\ pc \in {"finally", "raised"}
            /\ \A j \in DOMAIN yielded : yielded[j][1] # waits[i].page
            /\ pc \in {"close", "finally", "raised"}
            /\ reported = -1

C4_Witness ==
    /\ pc = "raised"
    /\ Len(waits) >= 1
    /\ ListingsTimeout(waits[Len(waits)])
    /\ waits[Len(waits)].page = 2
    /\ exc = "TimeoutException"
    /\ Len(yielded) >= 1

\* C5 (as claimed): a timeout on either bounded wait is not retried and is
\* fatal: it propagates as a failure and the run does not end normally.
C5_EveryTimeoutIsFatal ==
    \A i \in DOMAIN waits :
        waits[i].outcome = "timeout" =>
            /\ i = Len(waits)
            /\ exc # "none"
            /\ pc \notin {"report", "done"}

\* C5 (amended): no timeout is retried. A timeout of the wait for listings
\* propagates as a failure. A timeout of the wait for the old page to go
\* stale is caught by fetch_books and ends its sequence: no TimeoutException
\* is raised to the consumer, fetch_books has terminated, and the sink goes
\* on to close the destination with no exception in flight. The run then
\* ends normally unless that close fails, the only failure still possible.
C5_TimeoutsNotRetried ==
    \A i \in DOMAIN waits :
        /\ waits[i].outcome = "timeout" => i = Len(waits)
        /\ ListingsTimeout(waits[i]) =>
              /\ wpc = "RAISED"
              /\ exc # "none"
              /\ pc \in {"close", "finally", "raised"}
        /\ StaleTimeout(waits[i]) =>
              /\ wpc = "TERMINATED"
              /\ exc # "TimeoutException"
              /\ origin.who \in {"none", "close"}
              /\ pc \in {"close", "report", "finally", "done", "raised"}
              /\ pc = "close" => exc = "none"
              /\ CloseFailed <=> exc # "none"
              /\ exc = "none" => pc # "raised"
              /\ exc # "none" => (pc \in {"finally", "raised"} /\ reported = -1)

C5_Witness ==
    /\ pc = "done"
    /\ Len(waits) >= 1
    /\ StaleTimeout(waits[Len(waits)])
    /\ reported >= 1

\* C6: a failure of the walker, the extractor or the sink (its open, a
\* writerow or its close) reaches the caller of main only after exactly one
\* driver.quit(), and as the exception that reached main; on normal
\* completion the session is shut down exactly once too; driver.quit() never
\* runs twice.
C6_QuitOnceThenReraise ==
    /\ quits <= 1
    /\ pc = "done" => (quits = 1 /\ driver = "quit" /\ exc = "none")
    /\ origin.who \in {"walker", "extractor", "open", "writerow", "close"} =>
          /\ pc # "done"
          /\ exc = origin.exc
          /\ pc = "raised" => (quits = 1 /\ driver = "quit")

C6_Witness ==
    /\ pc = "raised"
    /\ origin.who = "extractor"
    /\ quits = 1
    /\ count >= 1

\* C7 (as claimed): main never ends with the session acquired and not shut
\* down.
C7_TeardownOnEveryExit ==
    (pc \in {"done", "raised"} /\ driver # "none") => driver = "quit"

\* C8: every record extract_book_details produces has exactly the keys of
\* fieldnames, in that order, whichever sub-elements the element has; the
\* sink finds neither an extra nor a missing key.
C8_RecordKeysAreFieldnames ==
    pc = "write" =>
        /\ Keys(rec) = fieldnames
        /\ RowLine(fieldnames, rec).exc = "none"

C8_Witness ==
    /\ pc = "write"
    /\ site[1].listings[1].matches = {"h4.text-primary"}

\* C9 (as claimed): the destination loses its prior content when opened and
\* is closed on every exit path; once the sink has left it, at the end of
\* the walk or on a failure, it holds the header line followed by exactly
\* the rows written before that, those of the first listings in walk order.
C9_HeaderThenRowsAndClosed ==
    /\ Opened => \A i \in DOMAIN file : file[i] # OldLine
    /\ pc \in {"report", "finally", "done", "raised"} => ~fileOpen
    /\ ~Opened => (file = prior /\ ~fileOpen)
    /\ (Opened /\ ~fileOpen) =>
          /\ count <= Len(yielded)
          /\ file = WrittenLines(count)

\* C10: the sink holds at most one record pulled and not yet written, and
\* only between pulling it and writing it; each element yielded is pulled at
\* most once; the count returned is the number of records pulled.
C10_OnePullPerWrite ==
    /\ pulled - count \in {0, 1}
    /\ pulled - count = 1 =>
          \/ pc = "write"
          \/ /\ origin.who \in {"writerow", "close"}
             /\ rec # <<>>
             /\ pc \in {"close", "finally", "raised"}
    /\ (rec # <<>>) => pulled - count = 1
    /\ Len(yielded) - pulled \in {0, 1}
    /\ Opened =>
          \/ csv_file = WrittenLines(count)
          \/ /\ origin \in {RaisedBy("writerow", "OSError"), RaisedBy("close", "OSError")}
             /\ rec # <<>>
             /\ csv_file = WrittenLines(count + 1)
    /\ (pc \in {"report", "finally", "done"} /\ exc = "none") => count = pulled

C10_Witness ==
    /\ pc = "write"
    /\ pulled = 3
    /\ count = 2

\* The run of main has ended, normally or in failure.
Ended == pc \in {"done", "raised"}

\* The pages on which fetch_books waited for listings, in order.
Visits == SelectSeq(waits, LAMBDA w : w.kind = "listings")

\* How far main is from its end: the phases of main, then for the pipeline
\* the pages left, the walker's position on its page, the elements left to
\* yield, and the consumer's position on the element in hand.
MainPhase ==
    CASE pc = "setup" -> 6
      [] pc = "navigate" -> 5
      [] pc = "open" -> 4
      [] pc \in {"pull", "extract", "write"} -> 3
      [] pc = "close" -> 2
      [] pc = "report" -> 1
      [] OTHER -> 0

WalkerStage ==
    CASE wpc = "AWAITING_LISTINGS" -> 3
      [] wpc = "YIELDING" -> 2
      [] wpc = "CHECKING_NEXT" -> 1
      [] OTHER -> 0

ElementsLeft == IF wpc = "YIELDING" THEN Len(held) - idx + 1 ELSE 0

ConsumerStep == CASE pc = "extract" -> 2 [] pc = "write" -> 1 [] OTHER -> 0

Measure ==
    (IF pc = "finally" THEN 1 ELSE 0)
    + 2 * (ConsumerStep
          + 3 * (ElementsLeft
                + (MaxPerPage + 1) * (WalkerStage
                                     + 4 * ((MaxPages - page) + MaxPages * MainPhase))))

\* C11: with finitely many pages and waits that succeed or time out, every
\* run of main ends, normally or in failure: main always has a next step
\* until it has ended, and every step brings it closer to its end. The
\* walker visits at most MaxPages pages, each once, in increasing order.
C11_RunEnds ==
    /\ [][Measure' < Measure]_vars
    /\ [](/\ Measure >= 0
          /\ Ended \/ ENABLED Next
          /\ Len(Visits) <= MaxPages
          /\ \A i \in DOMAIN Visits : Visits[i].page = i)

C11_Witness ==
    /\ Ended
    /\ Len(Visits) = MaxPages
    /\ wpc = "TERMINATED"
    /\ Len(yielded) >= 2

\* The last page observed, and what became of its next control.
LastPage == site[Len(site)]
NextAbsent == Len(site) >= 1 /\ LastPage.checked /\ ~LastPage.next.present
ClickIntercepted ==
    /\ Len(site) >= 1
    /\ LastPage.checked
    /\ Ready(LastPage.next)
    /\ \A i \in DOMAIN clicks : clicks[i] # Len(site)
StaleWaitTimedOut == Len(waits) >= 1 /\ StaleTimeout(waits[Len(waits)])

\* C12 (as claimed): when the next control is absent, or the click on it is
\* intercepted, or the wait on it times out, fetch_books has ended its
\* sequence without raising and the run completes normally: no exception is
\* in flight, once the sink has left the destination it holds the row of
\* every element yielded, and the count reported is the number of those rows.
C12_ExhaustionEndsNormally ==
    (NextAbsent \/ ClickIntercepted \/ StaleWaitTimedOut) =>
        /\ wpc = "TERMINATED"
        /\ exc = "none"
        /\ pc \in {"close", "report", "finally", "done"}
        /\ count = Len(yielded)
        /\ pc # "close" => file = WrittenLines(count)
        /\ pc \in {"finally", "done"} => reported = count

\* The next control of page p was found disabled or not displayed.
NextUnusable(p) ==
    /\ site[p].checked
    /\ site[p].next.present
    /\ ~(site[p].next.enabled /\ site[p].next.displayed)

\* C13: a next control that exists but is disabled or not displayed is never
\* clicked and no wait for staleness follows: fetch_books has ended, on that
\* page, and what it has yielded is what it had yielded when it found the
\* control: the listings of the pages up to that one.
C13_UnusableControlEndsWalk ==
    \A p \in DOMAIN site :
        NextUnusable(p) =>
            /\ \A i \in DOMAIN clicks : clicks[i] # p
            /\ \A i \in DOMAIN waits : ~(waits[i].kind = "stale" /\ waits[i].page = p)
            /\ wpc = "TERMINATED"
            /\ p = Len(site)
            /\ page = p
            /\ yielded = DomOrder(site, p)

C13_Witness ==
    /\ pc = "done"
    /\ Len(site) = 2
    /\ NextUnusable(2)
    /\ ~site[2].next.enabled
    /\ site[2].next.displayed
    /\ Len(yielded) >= 2

\* The number of listing elements on the first p pages observed.
ListedUpTo(p) == Len(DomOrder(site, p))

\* C14: the next control of a page is clicked only after every element
\* yielded from that page has been extracted and its row written; so the
\* element being extracted is of the page displayed, and the extractor
\* meets a stale element only when the site itself detached the node.
C14_ClickAfterPageIsWritten ==
    /\ \A i \in DOMAIN clicks :
          /\ count >= ListedUpTo(clicks[i])
          /\ Len(csv_file) >= ListedUpTo(clicks[i]) + 1
    /\ wpc = "ADVANCING" => (pc = "pull" /\ rec = <<>> /\ count = Len(yielded))
    /\ pc \in {"extract", "write"} => (cur[1] = page /\ cur = yielded[Len(yielded)])
    /\ (origin.who = "extractor" /\ exc = "StaleElementReferenceException") =>
          (cur[1] = page /\ site[cur[1]].listings[cur[2]].stale)

C14_Witness ==
    /\ pc = "extract"
    /\ page = 2
    /\ clicks = <<1>>
    /\ count = 2

\* C15 (as claimed): fetch_books never holds more than the one listing
\* element it is handing to the consumer.
C15_HoldsOneElement == Len(held) <= 1

\* C15 (amended): fetch_books holds the list find_elements returned for the
\* page displayed, and only while it yields from it: never elements of
\* another page, never those of more than one page; the consumer is handed
\* one element at a time and holds at most one record.
C15_HoldsOnePage ==
    /\ wpc # "YIELDING" => held = <<>>
    /\ wpc = "YIELDING" =>
          /\ held = [i \in 1..Len(site[page].listings) |-> <<page, i>>]
          /\ idx \in 1..(Len(held) + 1)
    /\ pulled - count <= 1

C15_Witness ==
    /\ wpc = "YIELDING"
    /\ page = 2
    /\ Len(held) = 2
    /\ idx = 2
    /\ pc = "write"

\* C16 (as claimed): a page is never silently empty: once the wait for
\* listings has succeeded on a page and fetch_books has gone on to look for
\* its next control, at least one element of that page has been yielded;
\* and a run in which a page gave no element does not end normally.
C16_PageNeverSilentlyEmpty ==
    /\ \A i \in DOMAIN waits :
          (/\ waits[i].kind = "listings"
           /\ waits[i].outcome = "ok"
           /\ site[waits[i].page].checked) =>
              \E j \in DOMAIN yielded : yielded[j][1] = waits[i].page
    /\ pc = "done" => \A p \in DOMAIN site : site[p].listings # <<>>

\* C17: when extraction of a yielded element fails because the element is
\* stale, the failure leaves the sink for main: that element is the last one
\* pulled from the walker, no row was written for it, the rows written are
\* those of the elements before it, the file is closed and no count is
\* reported. The run fails with that failure, or with the OSError of a close
\* that failed while it was in flight.
C17_ExtractionFailurePropagates ==
    \A j \in DOMAIN yielded :
        (ElementOf(yielded[j]).stale /\ (j < Len(yielded) \/ pc # "extract")) =>
            /\ j = Len(yielded)
            /\ \/ /\ exc = "StaleElementReferenceException"
                  /\ origin = RaisedBy("extractor", exc)
               \/ CloseFailed /\ pc \in {"finally", "raised"}
            /\ pc \in {"close", "finally", "raised"}
            /\ rec = <<>>
            /\ pulled = j - 1
            /\ count = j - 1
            /\ csv_file = WrittenLines(j - 1)
            /\ (pc # "close" /\ ~CloseFailed) => file = csv_file
            /\ pc # "close" => ~fileOpen
            /\ echoed = j - 1
            /\ reported = -1
            /\ wpc = "YIELDING"

C17_Witness ==
    /\ pc = "raised"
    /\ origin = RaisedBy("extractor", "StaleElementReferenceException")
    /\ Len(yielded) = 2
    /\ Len(site[1].listings) = 2
    /\ count = 1
    /\ ~fileOpen

\* C18 (as claimed): when fetch_books performs its first wait for listings
\* the destination has been opened and truncated and holds its header line;
\* a run that fails with a listings timeout on the first page leaves exactly
\* the header line in the closed destination, whatever it held before.
C18_HeaderBeforeFirstWait ==
    /\ Len(waits) >= 1 =>
          /\ Len(file) >= 1
          /\ file[1] = HeaderLine(fieldnames)
          /\ \A i \in DOMAIN file : file[i] # OldLine
    /\ (pc = "raised" /\ Len(waits) = 1 /\ ListingsTimeout(waits[1])) =>
          /\ file = <<HeaderLine(fieldnames)>>
          /\ ~fileOpen

\* v is what is left of text t after the first occurrence of delimiter d,
\* or t itself when d does not occur in it.
AfterFirstDelimiter(t, d, v) ==
    LET At(k) == k + Len(d) - 1 <= Len(t) /\ SubSeq(t, k, k + Len(d) - 1) = d
    IN \/ (\A k \in 1..Len(t) : ~At(k)) /\ v = t
       \/ \E k \in 1..Len(t) :
             /\ At(k)
             /\ \A j \in 1..(k - 1) : ~At(j)
             /\ v = SubSeq(t, k + Len(d), Len(t))

\* C19: for every non-title text field whose sub-element is found, the
\* record holds the container's text after the first occurrence of the
\* delimiter, later occurrences included, and the whole text when the
\* delimiter does not occur in it.
C19_SplitAtFirstDelimiter ==
    pc = "write" =>
        \A i \in DOMAIN selectors :
            (/\ selectors[i][1] \notin {"title", "new_release"}
             /\ selectors[i][2] \in site[1].listings[1].matches) =>
                /\ HasKey(rec, selectors[i][1])
                /\ \E v \in SeqsUpTo(Chars, MaxTextLen) :
                      /\ Get(rec, selectors[i][1]) = Str(v)
                      /\ AfterFirstDelimiter(site[1].listings[1].text, split_delimiter, v)

C19_Witness ==
    /\ pc = "write"
    /\ site[1].listings[1].text = <<":", " ", ":", " ", "a">>
    /\ SelectorOf(selectors, "author") \in site[1].listings[1].matches
    /\ Get(rec, "author") = Str(<<":", " ", "a">>)
====
